---- MODULE Spec2Model ----
(***************************************************************************)
(* Model of build_heatmap.py: the build pipeline (robust_range, the        *)
(* RdYlGn palette, the legend ticks, the precomputed per-metric colours)   *)
(* and the browser-side controller it emits (showYearAndMetric and the     *)
(* functions it calls, the radio wiring, the load listener, the hover      *)
(* handlers).                                                              *)
(*                                                                         *)
(* Numbers.  A real number x is held as the integer x * Unit.  Input       *)
(* observations lie on the grid of half units, so that the linear          *)
(* interpolation of the 0.003 / 0.997 quantiles is exact in this           *)
(* representation.  A missing observation (None / NaN) is the empty        *)
(* tuple NaN; a present one is the 1-tuple <<x * Unit>>.                    *)
(*                                                                         *)
(* Colours.  A colour string is held as the tuple of its channel bytes:    *)
(* "#cccccc" is <<204, 204, 204>>, and the "#rrggbbaa" string a branca     *)
(* colormap returns is <<r, g, b, a>>.                                      *)
(***************************************************************************)
EXTENDS Integers, Sequences, FiniteSets

VARIABLES
    args,             \* arguments of the build function under call
    ret,              \* its return value, <<>> before it returned
    stage,            \* position of the build script
    gdfs,             \* per year, per region: the three observations
    ranges,           \* metric -> (vmin, vmax)
    legend_for_metric,\* metric -> legend markup
    gdfcolors,        \* per year, per region: the color_* and cur_color columns
    LEGEND_BY_METRIC, \* the legend lookup embedded in the page
    props,            \* feature.properties of every feature of every year layer
    style,            \* paint options of every feature
    onMap,            \* the years whose FeatureGroup is on the map
    windowVars,       \* the years whose FeatureGroup variable resolves on window
    legendEls,        \* the elements with id tip-legend, in document order
    radioMetric,      \* the checked metric_sel radio
    radioYear,        \* the checked year_sel radio
    pc,               \* "unloaded", "loading", "timer" (wireControls queued), "ready"
    highlightBound,   \* _highlightBound of every feature layer
    listeners,        \* registered mouseover / mouseout listeners of every feature layer
    pointer,          \* the feature under the pointer, <<>> when none
    console           \* the years console.error reported

pureVars == <<args, ret>>
buildVars == <<stage, gdfs, ranges, legend_for_metric, gdfcolors>>
pageVars == <<LEGEND_BY_METRIC, props, style, onMap, windowVars, legendEls,
              radioMetric, radioYear>>
runVars == <<pc, highlightBound, listeners, pointer, console>>
vars == <<pureVars, buildVars, pageVars, runVars>>

----------------------------------------------------------------------------
(* Bounds of the model *)

MaxLen == 3           \* longest series handed to robust_range
MaxVal == 2           \* observations range over -MaxVal .. MaxVal half units
MaxDom == 6           \* legend domains range over -MaxDom .. MaxDom quarter units
NumYears == 2         \* YEARS is cut to its first NumYears years

----------------------------------------------------------------------------
(* Numbers *)

QLo == 3              \* np.nanquantile(arr, [0.003, 0.997]): 3 / 1000
QHi == 997            \*                                      997 / 1000
QDen == 1000

Unit == 2 * QDen      \* the representation of 1.0
Half == QDen          \* the representation of 0.5

NaN == <<>>
isna(v) == v = NaN
Num(v) == v[1]

max(a, b) == IF b > a THEN b ELSE a

Range(s) == {s[i] : i \in DOMAIN s}

(* round half to even of num / den, den > 0 (np.round) *)
np_round(num, den) ==
    LET q == num \div den
        r == num % den
    IN  IF 2 * r < den THEN q
        ELSE IF 2 * r > den THEN q + 1
        ELSE IF q % 2 = 0 THEN q ELSE q + 1

(* pd.Series(series).dropna().to_numpy(): the present observations, unwrapped *)
dropna(series) ==
    LET F[i \in 0..Len(series)] ==
            IF i = 0 THEN <<>>
            ELSE IF isna(series[i]) THEN F[i - 1]
                 ELSE Append(F[i - 1], Num(series[i]))
    IN  F[Len(series)]

(* the k-th smallest element of arr, k in 1..Len(arr) *)
KthSmallest(arr, k) ==
    CHOOSE v \in Range(arr) :
        /\ Cardinality({i \in DOMAIN arr : arr[i] < v}) < k
        /\ k <= Cardinality({i \in DOMAIN arr : arr[i] <= v})

(* np.nanquantile(arr, q / QDen), method "linear": the virtual index is    *)
(* q (n - 1) / QDen; the result interpolates between its two neighbours.   *)
nanquantile(arr, q) ==
    LET n   == Len(arr)
        pos == q * (n - 1)
        lo  == pos \div QDen
        g   == pos % QDen
        a   == KthSmallest(arr, lo + 1)
        b   == IF lo + 2 <= n THEN KthSmallest(arr, lo + 2) ELSE a
    IN  a + (g * (b - a)) \div QDen

robust_range_NoMinWidth(series, is_rate) ==
    LET arr  == dropna(series)
        vmin == nanquantile(arr, QLo)
        vmax == nanquantile(arr, QHi)
    IN  IF Len(arr) = 0 THEN <<0, Unit>>
        ELSE IF is_rate THEN <<max(0, vmin), vmax>>
        ELSE <<vmin, vmax>>

robust_range(series, is_rate) ==
    LET arr  == dropna(series)
        vmin == nanquantile(arr, QLo)
        vmax == nanquantile(arr, QHi)
        rmin == max(0, vmin)
        rmax == max(rmin + Unit, vmax)
    IN  IF Len(arr) = 0 THEN <<0, Unit>>
        ELSE IF is_rate THEN <<rmin, rmax>>
        ELSE <<vmin, vmax>>

----------------------------------------------------------------------------
(* Legend ticks *)

n_ticks == 7

(* np.linspace(a, b, n)[i + 1], i in 0 .. n - 1, as the fraction           *)
(* linspace_num / linspace_den of one Unit                                 *)
linspace_Swapped(a, b, n, i) == b * (n - 1) + (a - b) * i

linspace_num(a, b, n, i) == a * (n - 1) + (b - a) * i

linspace_den(n) == (n - 1) * Unit

(* lines 91-96: the tick values, each times Unit *)
legend_ticks(vmin, vmax, n, money_mode) ==
    [i \in 1..n |->
        IF money_mode
        THEN np_round(2 * linspace_num(vmin, vmax, n, i - 1), linspace_den(n)) * Half
        ELSE np_round(linspace_num(vmin, vmax, n, i - 1), linspace_den(n)) * Unit]

(* lines 94, 97: "{t:.2f}" of a half-unit tick is its count of hundredths, *)
(* "{t:d}" its integer value                                               *)
legend_labels(ticks, money_mode) ==
    [i \in DOMAIN ticks |->
        IF money_mode THEN <<"%.2f", (ticks[i] * 100) \div Unit>>
                      ELSE <<"%d", ticks[i] \div Unit>>]

----------------------------------------------------------------------------
(* Years, regions, metrics *)

FirstYear == 2015

YEARS == FirstYear..(FirstYear + NumYears - 1)

(* the rows of one year's CSV: two taxi zones, numbered as iterrows does *)
Regions == {1, 2}

metrics == <<"avg_tip", "med_tip", "avg_rate">>

Metrics == Range(metrics)

default_metric == "avg_tip"

default_year == FirstYear

----------------------------------------------------------------------------
(* Palette: linear.RdYlGn_11.scale(vmin, vmax) *)

RdYlGn_11 ==
    << <<165, 0, 38>>,    <<215, 48, 39>>,   <<244, 109, 67>>,  <<253, 174, 97>>,
       <<254, 224, 139>>, <<255, 255, 191>>, <<217, 239, 139>>, <<166, 217, 106>>,
       <<102, 189, 99>>,  <<26, 152, 80>>,   <<0, 104, 55>> >>

NStops == Len(RdYlGn_11)

NO_DATA_COLOR == <<204, 204, 204>>

Opaque(rgb) == Append(rgb, 255)

(* The colormap called on x = xnum / xden (times Unit) over the domain      *)
(* dom = (vmin, vmax): the first stop at or below vmin, the last at or     *)
(* above vmax, else the linear interpolation of the two stops around x,    *)
(* each channel truncated to a byte, as "#rrggbbaa".                       *)
Palette(dom, xnum, xden) ==
    LET d  == (dom[2] - dom[1]) * xden
        n  == xnum - dom[1] * xden
        i  == Cardinality({j \in 0..(NStops - 1) : j * d < (NStops - 1) * n})
        pn == (NStops - 1) * n - (i - 1) * d
    IN  IF n <= 0 THEN Opaque(RdYlGn_11[1])
        ELSE IF n >= d THEN Opaque(RdYlGn_11[NStops])
        ELSE Opaque([c \in 1..3 |->
                ((d - pn) * RdYlGn_11[i][c] + pn * RdYlGn_11[i + 1][c]) \div d])

(* line 81 *)
PALETTES(rngs) == [m \in Metrics |-> rngs[m]]

color_for_NaNAsValue(palettes, metric, val) ==
    IF isna(val) THEN Palette(palettes[metric], 0, 1)
    ELSE Palette(palettes[metric], Num(val), 1)

(* lines 137-140 *)
color_for(palettes, metric, val) ==
    IF isna(val) THEN NO_DATA_COLOR
    ELSE Palette(palettes[metric], Num(val), 1)

----------------------------------------------------------------------------
(* Ranges and legends *)

(* pd.concat([gdfs[y][m] for y in YEARS], ignore_index=True) *)
all_vals(g, m) ==
    LET F[k \in 0..NumYears] ==
            IF k = 0 THEN <<>>
            ELSE F[k - 1] \o [r \in 1..Cardinality(Regions) |->
                                 g[FirstYear + k - 1][r][m]]
    IN  F[NumYears]

(* lines 72-76 *)
compute_ranges(g) ==
    [m \in Metrics |-> robust_range(all_vals(g, m), m = "avg_rate")]

GradSamples == 64

(* lines 84-120: the markup, held as its id, caption, gradient and labels *)
make_continuous_legend_html(caption, vmin, vmax, n, money_mode, palette) ==
    [id       |-> "tip-legend",
     caption  |-> caption,
     grad_css |-> [k \in 1..GradSamples |->
                     Palette(palette, linspace_num(vmin, vmax, GradSamples, k - 1),
                             GradSamples - 1)],
     labels   |-> legend_labels(legend_ticks(vmin, vmax, n, money_mode), money_mode)]

caption_of(m) ==
    CASE m = "avg_tip"  -> "Average Tip ($)"
      [] m = "med_tip"  -> "Median Tip ($)"
      [] m = "avg_rate" -> "Average Tip Rate (% of Fare)"

(* lines 123-133 *)
build_legends(rngs) ==
    [m \in Metrics |->
        make_continuous_legend_html(caption_of(m), rngs[m][1], rngs[m][2], n_ticks,
                                    m /= "avg_rate", PALETTES(rngs)[m])]

----------------------------------------------------------------------------
(* Precomputed colours and the feature layers *)

colorProp(metric) ==
    CASE metric = "avg_tip"  -> "color_avg_tip"
      [] metric = "med_tip"  -> "color_med_tip"
      [] metric = "avg_rate" -> "color_avg_rate"

precompute_colors_PerYearDomain(g, rngs) ==
    [y \in YEARS |-> [r \in Regions |->
        LET own == [m \in Metrics |->
                      robust_range([q \in 1..Cardinality(Regions) |-> g[y][q][m]],
                                   m = "avg_rate")]
            col(m) == color_for(PALETTES(own), m, g[y][r][m])
        IN  [color_avg_tip  |-> col("avg_tip"),
             color_med_tip  |-> col("med_tip"),
             color_avg_rate |-> col("avg_rate"),
             cur_color      |-> col(default_metric)]]]

(* lines 148-152 *)
precompute_colors(g, rngs) ==
    [y \in YEARS |-> [r \in Regions |->
        LET col(m) == color_for(PALETTES(rngs), m, g[y][r][m])
        IN  [color_avg_tip  |-> col("avg_tip"),
             color_med_tip  |-> col("med_tip"),
             color_avg_rate |-> col("avg_rate"),
             cur_color      |-> col(default_metric)]]]

(* lines 167-177 *)
style_fn(properties) ==
    [fillOpacity |-> "0.7",
     weight      |-> "0.2",
     color       |-> "#666",
     fillColor   |-> properties.cur_color]

(* lines 179-190: feature.properties (the tooltip markup is left out) *)
feature_properties(row) ==
    [color_avg_tip  |-> row.color_avg_tip,
     color_med_tip  |-> row.color_med_tip,
     color_avg_rate |-> row.color_avg_rate,
     cur_color      |-> row.cur_color]

----------------------------------------------------------------------------
(* The build script, stage by stage *)

NoCall == args = <<>> /\ ret = <<>>

NoPage ==
    /\ LEGEND_BY_METRIC = <<>>
    /\ props = <<>>
    /\ style = <<>>
    /\ onMap = {}
    /\ windowVars = {}
    /\ legendEls = <<>>
    /\ radioMetric = ""
    /\ radioYear = 0

NotRunning ==
    /\ pc = "unloaded"
    /\ highlightBound = <<>>
    /\ listeners = <<>>
    /\ pointer = <<>>
    /\ console = {}

(* rows a CSV may hold: nothing observed; ordinary values; a tip rate that  *)
(* is nearly constant; a negative rate and no average tip                  *)
Rows ==
    << [avg_tip |-> NaN,           med_tip |-> NaN,           avg_rate |-> NaN],
       [avg_tip |-> <<4 * Half>>,  med_tip |-> <<3 * Half>>,  avg_rate |-> <<36 * Half>>],
       [avg_tip |-> <<7 * Half>>,  med_tip |-> <<4 * Half>>,  avg_rate |-> <<37 * Half>>],
       [avg_tip |-> NaN,           med_tip |-> <<6 * Half>>,  avg_rate |-> <<-2 * Half>>] >>

InitBuild ==
    /\ NoCall
    /\ stage = "ranges"
    /\ gdfs \in [YEARS -> [Regions -> Range(Rows)]]
    /\ ranges = <<>>
    /\ legend_for_metric = <<>>
    /\ gdfcolors = <<>>
    /\ NoPage
    /\ NotRunning

(* lines 72-76 *)
ComputeRanges ==
    /\ stage = "ranges"
    /\ ranges' = compute_ranges(gdfs)
    /\ stage' = "legends"
    /\ UNCHANGED <<pureVars, gdfs, legend_for_metric, gdfcolors, pageVars, runVars>>

(* lines 123-133 *)
BuildLegends ==
    /\ stage = "legends"
    /\ legend_for_metric' = build_legends(ranges)
    /\ stage' = "colors"
    /\ UNCHANGED <<pureVars, gdfs, ranges, gdfcolors, pageVars, runVars>>

(* lines 148-152 *)
PrecomputeColors ==
    /\ stage = "colors"
    /\ gdfcolors' = precompute_colors(gdfs, ranges)
    /\ stage' = "map"
    /\ UNCHANGED <<pureVars, gdfs, ranges, legend_for_metric, pageVars, runVars>>

(* lines 163-201: one GeoJson per row, its properties and its style *)
page_props(cols) ==
    [y \in YEARS |-> [r \in Regions |-> feature_properties(cols[y][r])]]

page_style(cols) ==
    [y \in YEARS |-> [r \in Regions |-> style_fn(feature_properties(cols[y][r]))]]

(* line 165: show=(y == default_year) *)
page_onMap == {y \in YEARS : y = default_year}

(* line 201: the generated name of the year's FeatureGroup variable *)
YEAR_TO_VARNAME == [y \in YEARS |-> <<"feature_group", y>>]

(* line 204 *)
page_legendEls(lfm) == <<lfm[default_metric]>>

(* lines 157-204, 221-223, 294-299, 443-447, 582-590: the page *)
BuildMap ==
    /\ stage = "map"
    /\ props' = page_props(gdfcolors)
    /\ style' = page_style(gdfcolors)
    /\ onMap' = page_onMap
    /\ windowVars' = Range(YEAR_TO_VARNAME)
    /\ legendEls' = page_legendEls(legend_for_metric)
    /\ LEGEND_BY_METRIC' = legend_for_metric
    /\ radioMetric' = "avg_tip"
    /\ radioYear' = default_year
    /\ stage' = "saved"
    /\ UNCHANGED <<pureVars, gdfs, ranges, legend_for_metric, gdfcolors, runVars>>

NextBuild ==
    \/ ComputeRanges
    \/ BuildLegends
    \/ PrecomputeColors
    \/ BuildMap

SpecBuild == InitBuild /\ [][NextBuild]_vars

----------------------------------------------------------------------------
(* The controller script of the page *)

(* lines 455-458: getElementById returns the first element with the id *)
removeLegend(els) == IF els = <<>> THEN els ELSE Tail(els)

addLegend_KeepOld(els, metric) == Append(els, LEGEND_BY_METRIC[metric])

(* lines 459-464 *)
addLegend(els, metric) == Append(removeLegend(els), LEGEND_BY_METRIC[metric])

(* lines 466-468: window[varName] || null, null being <<>> *)
layerFromVar(varName) == IF varName \in windowVars THEN <<varName>> ELSE <<>>

hideAllYears_KeepFirst(om) ==
    om \ {y \in YEARS : y /= default_year /\ layerFromVar(YEAR_TO_VARNAME[y]) /= <<>> /\ y \in om}

(* lines 470-478 *)
hideAllYears(om) ==
    om \ {y \in YEARS : layerFromVar(YEAR_TO_VARNAME[y]) /= <<>> /\ y \in om}

(* props[colorProp] || "#cccccc" *)
orNoData(c) == IF c = <<>> THEN NO_DATA_COLOR ELSE c

recolorLayerByMetric_props_Default(p, year, metric) ==
    [p EXCEPT ![year] = [r \in Regions |->
        [p[year][r] EXCEPT !.cur_color = orNoData(p[year][r][colorProp(default_metric)])]]]

recolorLayerByMetric_props_Cache(p, year, metric) ==
    [p EXCEPT ![year] = [r \in Regions |->
        [p[year][r] EXCEPT !.cur_color = orNoData(p[year][r][colorProp(metric)]),
                           !.color_avg_tip = orNoData(p[year][r][colorProp(metric)])]]]

(* lines 481-504, feature.properties: props.cur_color = fill *)
recolorLayerByMetric_props(p, year, metric) ==
    [p EXCEPT ![year] = [r \in Regions |->
        [p[year][r] EXCEPT !.cur_color = orNoData(p[year][r][colorProp(metric)])]]]

(* lines 481-504, paint: l.setStyle({ fillColor: fill }) *)
recolorLayerByMetric_style(st, p, year, metric) ==
    [st EXCEPT ![year] = [r \in Regions |->
        [st[year][r] EXCEPT !.fillColor = orNoData(p[year][r][colorProp(metric)])]]]

attachHighlightHandlers_listeners_Unguarded(ls, hb, year) ==
    [ls EXCEPT ![year] = [r \in Regions |->
        [mouseover |-> ls[year][r].mouseover + 1,
         mouseout  |-> ls[year][r].mouseout + 1]]]

(* lines 507-531: the listeners of the year's feature layers *)
attachHighlightHandlers_listeners(ls, hb, year) ==
    [ls EXCEPT ![year] = [r \in Regions |->
        IF hb[year][r] THEN ls[year][r]
        ELSE [mouseover |-> ls[year][r].mouseover + 1,
              mouseout  |-> ls[year][r].mouseout + 1]]]

(* lines 507-531: featLayer._highlightBound = true *)
attachHighlightHandlers_bound(hb, year) ==
    [hb EXCEPT ![year] = [r \in Regions |-> TRUE]]

(* lines 548-554 *)
curMetric == IF radioMetric \in Metrics THEN radioMetric ELSE default_metric

(* lines 555-561 *)
curYear == IF radioYear \in YEARS THEN radioYear ELSE default_year

(* what a transition reads and writes: the map's layers, the features'     *)
(* properties and paint, the listeners, the legend, the console            *)
Dom ==
    [onMap |-> onMap, props |-> props, style |-> style, listeners |-> listeners,
     highlightBound |-> highlightBound, legendEls |-> legendEls, console |-> console]

(* lines 533-546: the state showYearAndMetric leaves, from the state S *)
showYearAndMetric(S, metric, year) ==
    LET hidden == hideAllYears(S.onMap)
        lyr    == layerFromVar(YEAR_TO_VARNAME[year])
    IN  IF lyr /= <<>>
        THEN [onMap          |-> hidden \cup {year},
              props          |-> recolorLayerByMetric_props(S.props, year, metric),
              style          |-> recolorLayerByMetric_style(S.style, S.props, year, metric),
              listeners      |-> attachHighlightHandlers_listeners(
                                     S.listeners, S.highlightBound, year),
              highlightBound |-> attachHighlightHandlers_bound(S.highlightBound, year),
              legendEls      |-> addLegend(S.legendEls, metric),
              console        |-> S.console]
        ELSE [S EXCEPT !.onMap = hidden, !.console = S.console \cup {year}]

(* a call of showYearAndMetric.  Removing a layer removes its paths from   *)
(* the document, so no feature is under the pointer afterwards.            *)
Transition(metric, year) ==
    LET R == showYearAndMetric(Dom, metric, year)
    IN  /\ onMap' = R.onMap
        /\ props' = R.props
        /\ style' = R.style
        /\ listeners' = R.listeners
        /\ highlightBound' = R.highlightBound
        /\ legendEls' = R.legendEls
        /\ console' = R.console
        /\ pointer' = <<>>

(* line 575: the load event; line 577 queues wireControls *)
WindowLoad ==
    /\ pc = "loading"
    /\ pc' = "timer"
    /\ UNCHANGED <<pureVars, buildVars, pageVars, highlightBound, listeners,
                   pointer, console>>

wireControls_NoBoot ==
    /\ pc = "timer"
    /\ pc' = "ready"
    /\ UNCHANGED <<pureVars, buildVars, pageVars, highlightBound, listeners,
                   pointer, console>>

(* lines 563-573: the change listeners are registered, then the boot       *)
(* transition into the checked radios                                      *)
wireControls ==
    /\ pc = "timer"
    /\ pc' = "ready"
    /\ Transition(curMetric, curYear)
    /\ UNCHANGED <<pureVars, buildVars, LEGEND_BY_METRIC, windowVars,
                   radioMetric, radioYear>>

(* the user checks another metric radio: a change event, handled (line     *)
(* 567) once wireControls has registered the listener                      *)
SelectMetric(m) ==
    /\ pc \in {"loading", "timer", "ready"}
    /\ m /= radioMetric
    /\ radioMetric' = m
    /\ IF pc = "ready"
       THEN Transition(curMetric', curYear)
       ELSE UNCHANGED <<props, style, onMap, legendEls, highlightBound, listeners,
                        pointer, console>>
    /\ UNCHANGED <<pureVars, buildVars, LEGEND_BY_METRIC, windowVars, radioYear, pc>>

(* the user checks another year radio *)
SelectYear(y) ==
    /\ pc \in {"loading", "timer", "ready"}
    /\ y /= radioYear
    /\ radioYear' = y
    /\ IF pc = "ready"
       THEN Transition(curMetric, curYear')
       ELSE UNCHANGED <<props, style, onMap, legendEls, highlightBound, listeners,
                        pointer, console>>
    /\ UNCHANGED <<pureVars, buildVars, LEGEND_BY_METRIC, windowVars, radioMetric, pc>>

(* lines 513-519: the pointer enters a feature of a layer on the map *)
MouseOver(y, r) ==
    /\ pc \in {"loading", "timer", "ready"}
    /\ y \in onMap
    /\ pointer = <<>>
    /\ pointer' = <<y, r>>
    /\ style' = IF listeners[y][r].mouseover > 0
                THEN [style EXCEPT ![y][r] =
                        [@ EXCEPT !.weight = "2", !.color = "#000", !.fillOpacity = "0.85"]]
                ELSE style
    /\ UNCHANGED <<pureVars, buildVars, LEGEND_BY_METRIC, props, onMap, windowVars,
                   legendEls, radioMetric, radioYear, pc, highlightBound, listeners,
                   console>>

MouseOut_ResetStyle(y, r) ==
    /\ pc \in {"loading", "timer", "ready"}
    /\ pointer = <<y, r>>
    /\ pointer' = <<>>
    /\ style' = IF listeners[y][r].mouseout > 0
                THEN [style EXCEPT ![y][r] = style_fn(gdfcolors[y][r])]
                ELSE style
    /\ UNCHANGED <<pureVars, buildVars, LEGEND_BY_METRIC, props, onMap, windowVars,
                   legendEls, radioMetric, radioYear, pc, highlightBound, listeners,
                   console>>

(* lines 521-527: the pointer leaves the feature it is on *)
MouseOut(y, r) ==
    /\ pc \in {"loading", "timer", "ready"}
    /\ pointer = <<y, r>>
    /\ pointer' = <<>>
    /\ style' = IF listeners[y][r].mouseout > 0
                THEN [style EXCEPT ![y][r] =
                        [@ EXCEPT !.weight = "0.2", !.color = "#666", !.fillOpacity = "0.7"]]
                ELSE style
    /\ UNCHANGED <<pureVars, buildVars, LEGEND_BY_METRIC, props, onMap, windowVars,
                   legendEls, radioMetric, radioYear, pc, highlightBound, listeners,
                   console>>

(* two data sets the page is built from *)
SampleIds == {0, 1}

Sample(j) ==
    [y \in YEARS |-> [r \in Regions |->
        Rows[(((y - FirstYear) + r + j) % Len(Rows)) + 1]]]

(* the saved page of data set g, opened in a browser: stage "saved" of the *)
(* build, every FeatureGroup variable defined                              *)
Opened(g) ==
    /\ NoCall
    /\ stage = "saved"
    /\ gdfs = g
    /\ ranges = compute_ranges(g)
    /\ legend_for_metric = build_legends(ranges)
    /\ gdfcolors = precompute_colors(g, ranges)
    /\ props = page_props(gdfcolors)
    /\ style = page_style(gdfcolors)
    /\ legendEls = page_legendEls(legend_for_metric)
    /\ LEGEND_BY_METRIC = legend_for_metric
    /\ radioMetric = "avg_tip"
    /\ radioYear = default_year
    /\ pc = "loading"
    /\ highlightBound = [y \in YEARS |-> [r \in Regions |-> FALSE]]
    /\ listeners = [y \in YEARS |-> [r \in Regions |-> [mouseover |-> 0, mouseout |-> 0]]]
    /\ pointer = <<>>
    /\ console = {}

Init ==
    /\ \E j \in SampleIds : Opened(Sample(j))
    /\ windowVars = Range(YEAR_TO_VARNAME)
    /\ onMap = page_onMap

Next ==
    \/ WindowLoad
    \/ wireControls
    \/ \E m \in Metrics : SelectMetric(m)
    \/ \E y \in YEARS : SelectYear(y)
    \/ \E y \in YEARS : \E r \in Regions : MouseOver(y, r)
    \/ \E y \in YEARS : \E r \in Regions : MouseOut(y, r)

Spec == Init /\ [][Next]_vars

(* the same page when some FeatureGroup variables do not resolve on window *)
InitMissing ==
    /\ \E j \in SampleIds : Opened(Sample(j))
    /\ windowVars \in SUBSET Range(YEAR_TO_VARNAME)
    /\ onMap = {y \in page_onMap : YEAR_TO_VARNAME[y] \in windowVars}

SpecMissing == InitMissing /\ [][Next]_vars

----------------------------------------------------------------------------
(* Calls of the pure build functions on enumerated arguments *)

Observations == {NaN} \cup {<<k * Half>> : k \in -MaxVal..MaxVal}

SeriesOf(n) == [1..n -> Observations]

InitRange ==
    /\ args \in {[series |-> s, is_rate |-> r] :
                    s \in UNION {SeriesOf(n) : n \in 0..MaxLen}, r \in BOOLEAN}
    /\ ret = <<>>
    /\ stage = "none"
    /\ gdfs = <<>> /\ ranges = <<>> /\ legend_for_metric = <<>> /\ gdfcolors = <<>>
    /\ NoPage
    /\ NotRunning

CallRobustRange ==
    /\ ret = <<>>
    /\ ret' = robust_range(args.series, args.is_rate)
    /\ UNCHANGED <<args, buildVars, pageVars, runVars>>

SpecRange == InitRange /\ [][CallRobustRange]_vars

Domains == {k * (Unit \div 4) : k \in -MaxDom..MaxDom}

InitLegend ==
    /\ args \in {[vmin |-> a, vmax |-> b, money_mode |-> mm] :
                    a \in Domains, b \in Domains, mm \in BOOLEAN}
    /\ args.vmin <= args.vmax
    /\ ret = <<>>
    /\ stage = "none"
    /\ gdfs = <<>> /\ ranges = <<>> /\ legend_for_metric = <<>> /\ gdfcolors = <<>>
    /\ NoPage
    /\ NotRunning

CallLegendTicks ==
    /\ ret = <<>>
    /\ ret' = legend_ticks(args.vmin, args.vmax, n_ticks, args.money_mode)
    /\ UNCHANGED <<args, buildVars, pageVars, runVars>>

SpecLegend == InitLegend /\ [][CallLegendTicks]_vars

----------------------------------------------------------------------------
----------------------------------------------------------------------------
(* Claims about the controller *)

ColoredBy(year, metric) ==
    \A r \in Regions :
        /\ props[year][r].cur_color = props[year][r][colorProp(metric)]
        /\ style[year][r].fillColor = props[year][r][colorProp(metric)]

(* C1: once the page has booted, after any sequence of metric and year     *)
(* selections, every feature of the layer on the map has cur_color and     *)
(* fill colour equal to its precomputed colour of the selected metric.     *)
C1_CurrentColorFollowsMetric ==
    pc = "ready" => \A y \in onMap : ColoredBy(y, radioMetric)

(* a non-default year shown under a non-default metric whose colours       *)
(* differ from the build-time cur_color                                    *)
C1_Witness ==
    /\ pc = "ready"
    /\ radioMetric = "med_tip"
    /\ radioYear /= default_year
    /\ onMap = {radioYear}
    /\ \E r \in Regions :
          props[radioYear][r].cur_color /= props[radioYear][r].color_avg_tip

(* C2: at most one year layer is on the map in every reachable state, and  *)
(* after a transition into a year whose layer exists that layer is the     *)
(* one on the map.                                                         *)
C2_OneLayerAttached ==
    /\ Cardinality(onMap) <= 1
    /\ (pc = "ready" /\ layerFromVar(YEAR_TO_VARNAME[radioYear]) /= <<>>)
          => onMap = {radioYear}

(* the default year was shown and bound, then another year was selected    *)
C2_Witness ==
    /\ pc = "ready"
    /\ radioYear /= default_year
    /\ \A r \in Regions : highlightBound[default_year][r]
    /\ onMap = {radioYear}
    /\ default_year \notin onMap

(* C3: exactly one tip-legend element is in the document: the build-time   *)
(* legend of the default metric before the boot transition, the            *)
(* precomputed legend of the selected metric after every transition.       *)
C3_OneLegend ==
    /\ Len(legendEls) = 1
    /\ legendEls[1].id = "tip-legend"
    /\ pc \in {"loading", "timer"} => legendEls[1] = LEGEND_BY_METRIC[default_metric]
    /\ pc = "ready" => legendEls[1] = LEGEND_BY_METRIC[radioMetric]

(* the rate legend swapped in, different from the build-time legend *)
C3_Witness ==
    /\ pc = "ready"
    /\ radioMetric = "avg_rate"
    /\ legendEls = <<LEGEND_BY_METRIC["avg_rate"]>>
    /\ LEGEND_BY_METRIC["avg_rate"] /= LEGEND_BY_METRIC[default_metric]

(* C4: entering the current ViewState again leaves the layers, colours,    *)
(* paint, legend and listeners as they are, and no feature layer ever has  *)
(* more than one mouseover or more than one mouseout listener.             *)
C4_IdempotentReentry ==
    /\ pc = "ready" => showYearAndMetric(Dom, curMetric, curYear) = Dom
    /\ pc /= "unloaded" =>
          \A y \in YEARS : \A r \in Regions :
              /\ listeners[y][r].mouseover <= 1
              /\ listeners[y][r].mouseout <= 1
              /\ highlightBound[y][r] <=> listeners[y][r].mouseover = 1

(* every layer has been activated, the one on the map more than once: the  *)
(* boot and two selections went to NumYears = 2 layers                     *)
C4_Witness ==
    /\ pc = "ready"
    /\ \A y \in YEARS : \A r \in Regions :
          highlightBound[y][r] /\ listeners[y][r] = [mouseover |-> 1, mouseout |-> 1]
    /\ \A y \in YEARS : \E r \in Regions :
          props[y][r].cur_color /= props[y][r].color_avg_tip

(* C5: a transition into a year with no layer reports the error and        *)
(* leaves the layer on the map, the colours and the legend as they were.   *)
C5_MissingLayerKeepsView ==
    [][(/\ pc = "ready"
        /\ <<radioMetric', radioYear'>> /= <<radioMetric, radioYear>>
        /\ layerFromVar(YEAR_TO_VARNAME[radioYear']) = <<>>)
       => (/\ radioYear' \in console'
           /\ onMap' = onMap
           /\ props' = props
           /\ style' = style
           /\ legendEls' = legendEls)]_vars

(* C6 as stated: the boot transition enters the fixed default ViewState.   *)
C6_BootEntersDefault ==
    [][(pc = "timer" /\ pc' = "ready")
       => (/\ onMap' = {default_year}
           /\ legendEls' = <<LEGEND_BY_METRIC[default_metric]>>
           /\ \A r \in Regions :
                 style'[default_year][r].fillColor = props'[default_year][r].color_avg_tip)]_vars

(* C6 amended: the boot transition happens once (pc only moves loading,    *)
(* timer, ready), enters the ViewState of the checked radios, which is     *)
(* the default unless a radio was changed before it; no selection is       *)
(* acted on before it; no state has zero layers on the map.                *)
C6_BootEntersCheckedRadios ==
    /\ [](pc /= "unloaded" => onMap /= {})
    /\ [][pc' /= pc => \/ (pc = "loading" /\ pc' = "timer")
                       \/ (pc = "timer" /\ pc' = "ready")]_vars
    /\ [][(pc = "timer" /\ pc' = "ready")
          => (/\ <<radioMetric', radioYear'>> = <<radioMetric, radioYear>>
              /\ onMap' = {radioYear}
              /\ legendEls' = <<LEGEND_BY_METRIC[radioMetric]>>
              /\ \A r \in Regions :
                    /\ props'[radioYear][r].cur_color = props[radioYear][r][colorProp(radioMetric)]
                    /\ style'[radioYear][r].fillColor = props[radioYear][r][colorProp(radioMetric)])]_vars
    /\ [][(pc /= "ready" /\ pc' /= "ready")
          => UNCHANGED <<onMap, props, style, legendEls, listeners, highlightBound>>]_vars
    /\ []((pc \in {"loading", "timer"})
             => (/\ onMap = {default_year}
                 /\ legendEls = <<LEGEND_BY_METRIC[default_metric]>>
                 /\ ColoredBy(default_year, default_metric)))

(* booted straight into a year other than the default: the default year's  *)
(* layer was never activated                                               *)
C6_Witness ==
    /\ pc = "ready"
    /\ radioYear /= default_year
    /\ onMap = {radioYear}
    /\ \A r \in Regions : ~highlightBound[default_year][r]

(* C7: no runtime event changes a precomputed colour or the legend lookup; *)
(* a step changes cur_color and paint only of features of the layer that   *)
(* is on the map after it.                                                 *)
C7_PrecomputedFrame ==
    [][/\ LEGEND_BY_METRIC' = LEGEND_BY_METRIC
       /\ \A y \in YEARS : \A r \in Regions :
             /\ \A m \in Metrics : props'[y][r][colorProp(m)] = props[y][r][colorProp(m)]
             /\ props'[y][r][colorProp("avg_tip")] = gdfcolors[y][r].color_avg_tip
             /\ y \notin onMap' => (props'[y][r] = props[y][r] /\ style'[y][r] = style[y][r])
      ]_vars

(* a recoloured, hovered feature beside a layer left as built *)
C7_Witness ==
    /\ pc = "ready"
    /\ radioMetric = "avg_rate"
    /\ \E y \in onMap : \E r \in Regions :
          /\ style[y][r].weight = "2"
          /\ props[y][r].cur_color = props[y][r].color_avg_rate
          /\ props[y][r].cur_color /= props[y][r].color_avg_tip
    /\ \E y \in YEARS \ onMap : \A r \in Regions :
          props[y][r].cur_color = props[y][r].color_avg_tip

(* the pointer enters a feature: only MouseOver sets the pointer *)
PointerEnters == pointer = <<>> /\ pointer' /= <<>>

(* the pointer leaves a feature with no selection and no boot in the same  *)
(* step (a transition also clears the pointer, with the layer's paths)     *)
PointerLeaves ==
    /\ pointer /= <<>>
    /\ pointer' = <<>>
    /\ UNCHANGED <<radioMetric, radioYear, pc>>

(* C11: pointer-enter and pointer-leave change only the stroke weight,     *)
(* stroke colour and fill opacity of the feature concerned, never a fill   *)
(* colour, cur_color, the layer on the map, the legend or the selected     *)
(* (metric, year); after pointer-leave the feature has the baseline the    *)
(* layer was built with: weight 0.2, colour #666, fill opacity 0.7.        *)
C11_HoverCosmetic ==
    [][(PointerEnters \/ PointerLeaves) =>
         LET f == IF pointer' /= <<>> THEN pointer' ELSE pointer
         IN  /\ UNCHANGED <<props, onMap, legendEls, LEGEND_BY_METRIC,
                            radioMetric, radioYear, highlightBound, listeners>>
             /\ \A y \in YEARS : \A r \in Regions :
                   /\ style'[y][r].fillColor = style[y][r].fillColor
                   /\ <<y, r>> /= f => style'[y][r] = style[y][r]
             /\ f[1] \in onMap
             /\ (PointerEnters /\ pc = "ready") =>
                   /\ style'[f[1]][f[2]].weight = "2"
                   /\ style'[f[1]][f[2]].color = "#000"
                   /\ style'[f[1]][f[2]].fillOpacity = "0.85"
             /\ PointerLeaves =>
                   /\ style'[f[1]][f[2]].weight = "0.2"
                   /\ style'[f[1]][f[2]].color = "#666"
                   /\ style'[f[1]][f[2]].fillOpacity = "0.7"
                   /\ style'[f[1]][f[2]] = style_fn(props[f[1]][f[2]])
      ]_vars

(* the pointer rests on a highlighted feature that was recoloured by       *)
(* med_tip, beside a feature of the same layer at the baseline             *)
C11_Witness ==
    /\ pc = "ready"
    /\ radioMetric = "med_tip"
    /\ pointer /= <<>>
    /\ pointer[1] \in onMap
    /\ style[pointer[1]][pointer[2]].weight = "2"
    /\ style[pointer[1]][pointer[2]].color = "#000"
    /\ style[pointer[1]][pointer[2]].fillOpacity = "0.85"
    /\ style[pointer[1]][pointer[2]].fillColor = props[pointer[1]][pointer[2]].color_med_tip
    /\ style[pointer[1]][pointer[2]].fillColor /= gdfcolors[pointer[1]][pointer[2]].cur_color
    /\ \E r \in Regions :
          /\ r /= pointer[2]
          /\ style[pointer[1]][r] = style_fn(props[pointer[1]][r])

(* C8: the build gives every (region, year) one colour per metric: the     *)
(* sentinel NO_DATA_COLOR when the observation is missing, else the        *)
(* palette colour of the value under the metric's one all-years domain;    *)
(* the sentinel is no palette colour, so a colour is the sentinel exactly  *)
(* when the observation is missing.                                        *)
C8_PrecomputedColors ==
    stage = "saved" =>
        \A y \in YEARS : \A r \in Regions :
            /\ DOMAIN props[y][r] =
                  {colorProp(m) : m \in Metrics} \cup {"cur_color"}
            /\ \A m \in Metrics :
                  LET c == props[y][r][colorProp(m)]
                      v == gdfs[y][r][m]
                  IN  /\ (c = NO_DATA_COLOR) <=> isna(v)
                      /\ ~isna(v) => c = Palette(ranges[m], Num(v), 1)
                      /\ ranges[m] = robust_range(all_vals(gdfs, m), m = "avg_rate")
                      /\ \A y2 \in YEARS : \A r2 \in Regions :
                            gdfs[y2][r2][m] = v => props[y2][r2][colorProp(m)] = c

(* a saved page with a missing observation, one strictly inside its        *)
(* metric's domain and one clamped at the domain's lower edge              *)
C8_Witness ==
    /\ stage = "saved"
    /\ \E y \in YEARS : \E r \in Regions : isna(gdfs[y][r]["avg_tip"])
    /\ \E y \in YEARS : \E r \in Regions :
          /\ ~isna(gdfs[y][r]["med_tip"])
          /\ Num(gdfs[y][r]["med_tip"]) > ranges["med_tip"][1]
          /\ Num(gdfs[y][r]["med_tip"]) < ranges["med_tip"][2]
    /\ \E y \in YEARS : \E r \in Regions :
          /\ ~isna(gdfs[y][r]["med_tip"])
          /\ Num(gdfs[y][r]["med_tip"]) < ranges["med_tip"][1]

(* C9: for a rate metric robust_range returns vmin >= 0 and                *)
(* vmax >= vmin + 1 for every series (negative, constant, all missing);    *)
(* an all-missing series gives exactly (0.0, 1.0).                         *)
C9_RateClamp ==
    ret /= <<>> =>
        /\ args.is_rate => (ret[1] >= 0 /\ ret[2] >= ret[1] + Unit)
        /\ dropna(args.series) = <<>> => ret = <<0, Unit>>

(* a rate series with a negative observation whose raw quantiles are less  *)
(* than one unit apart: both clamps acted                                  *)
C9_Witness ==
    /\ ret /= <<>>
    /\ args.is_rate
    /\ Len(dropna(args.series)) >= 2
    /\ nanquantile(dropna(args.series), QLo) < 0
    /\ nanquantile(dropna(args.series), QHi) < Unit
    /\ ret = <<0, Unit>>

(* C10: the n_ticks tick values of a legend over [vmin, vmax],             *)
(* vmin <= vmax, are non-decreasing from left to right, for money and      *)
(* for rate rounding.                                                      *)
C10_TicksMonotone ==
    ret /= <<>> =>
        /\ Len(ret) = n_ticks
        /\ \A i \in 1..(Len(ret) - 1) : ret[i] <= ret[i + 1]

(* a money legend whose ticks hit a rounding tie and still rise *)
C10_Witness ==
    /\ ret /= <<>>
    /\ args.money_mode
    /\ args.vmin < args.vmax
    /\ \E i \in 1..n_ticks :
          (4 * linspace_num(args.vmin, args.vmax, n_ticks, i - 1))
              % linspace_den(n_ticks) = 0
          /\ (2 * linspace_num(args.vmin, args.vmax, n_ticks, i - 1))
              % linspace_den(n_ticks) /= 0
    /\ ret[1] < ret[n_ticks]

====
